---- MODULE Spec2Model ----
(***************************************************************************)
(* A model of pyhopper.Search (src/pyhopper/search.py): the search loop of *)
(* Search.run, the result handler _async_result_ready, the manual queue,   *)
(* the cache gating and the checkpoint protocol.                           *)
(*                                                                         *)
(* Python values are modelled as tagged trees: a dict is D(f) with f a     *)
(* function from keys to trees, a list is L(s) with s a sequence of trees, *)
(* any other value is the leaf V(v).  A registered pyhopper.Parameter is   *)
(* the node Parameter(init).                                               *)
(*                                                                         *)
(* The collaborators whose code is not part of search.py (EvaluationCache, *)
(* ScheduledRun, RunContext, TaskManager, SignalListener, Parameter) are   *)
(* modelled from their description in the specification.                   *)
(***************************************************************************)
EXTENDS Integers, Sequences, FiniteSets, TLC

(***************************************************************************)
(* Bounds of the model.                                                    *)
(***************************************************************************)
MaxSteps == 3      \* largest step budget passed to run
MaxJobs == 2       \* largest worker pool (n_jobs)
MaxRuns == 2       \* number of run calls on one Search object
MaxObj == 2        \* objective values are 1..MaxObj
MaxQueue == 2      \* largest length of the manual queue
RerunSteps == 2    \* step budget of the runs of a behaviour with several runs
ClaimSteps == 5    \* step budget of the run with a constant objective
MaxRejects == 6    \* longest chain of duplicate boosts applied to a temperature

(***************************************************************************)
(* Sentinels for Python's None and for the float NaN in integer fields.    *)
(***************************************************************************)
None == -1
NaN == -2
\* temperatures are fixed-point numbers, TempScale stands for 1.0
TempScale == 1000

Min(a, b) == IF a < b THEN a ELSE b
Max(a, b) == IF a > b THEN a ELSE b

(***************************************************************************)
(* Trees                                                                   *)
(***************************************************************************)
V(v) == [t |-> "val", v |-> v]
D(f) == [t |-> "dict", kv |-> f]
L(s) == [t |-> "list", el |-> s]
Parameter(init) == [t |-> "param", init |-> init]

\* the values a Parameter can take (Parameter.sample / Parameter.mutate)
ParamValues == {0, 1}

isParameter(node) == node.t = "param"
isDict(node) == node.t = "dict"
isList(node) == node.t = "list"

\* the search space registered in Search.__init__
SearchSpace == D([a |-> Parameter(0), b |-> L(<<Parameter(0), V(7)>>)])

RECURSIVE SumSeq(_)
SumSeq(s) == IF s = <<>> THEN 0 ELSE Head(s) + SumSeq(Tail(s))

RECURSIVE SumOver(_, _)
SumOver(f, keys) ==
    IF keys = {} THEN 0
    ELSE LET k == CHOOSE x \in keys : TRUE
         IN f[k] + SumOver(f, keys \ {k})

\* Search._get_initial_solution
RECURSIVE get_initial_solution(_)
get_initial_solution(param) ==
    IF isParameter(param) THEN V(param.init)
    ELSE IF isDict(param)
      THEN D([k \in DOMAIN param.kv |-> get_initial_solution(param.kv[k])])
    ELSE IF isList(param)
      THEN L([i \in DOMAIN param.el |-> get_initial_solution(param.el[i])])
    ELSE param

\* Search._count_free_parameters_rec
RECURSIVE count_free_parameters_rec(_)
count_free_parameters_rec(node) ==
    IF isParameter(node) THEN 1
    ELSE IF isDict(node)
      THEN SumOver([k \in DOMAIN node.kv |-> count_free_parameters_rec(node.kv[k])],
                   DOMAIN node.kv)
    ELSE IF isList(node)
      THEN SumSeq([i \in DOMAIN node.el |-> count_free_parameters_rec(node.el[i])])
    ELSE 0

\* Search.sample_solution: the set of candidates it can return
RECURSIVE sample_solution(_)
sample_solution(node) ==
    IF isParameter(node) THEN {V(x) : x \in ParamValues}
    ELSE IF isDict(node)
      THEN {D(f) : f \in {g \in [DOMAIN node.kv ->
                                   UNION {sample_solution(node.kv[k]) : k \in DOMAIN node.kv}] :
                              \A k \in DOMAIN node.kv : g[k] \in sample_solution(node.kv[k])}}
    ELSE IF isList(node)
      THEN {L(f) : f \in {g \in [DOMAIN node.el ->
                                   UNION {sample_solution(node.el[i]) : i \in DOMAIN node.el}] :
                              \A i \in DOMAIN node.el : g[i] \in sample_solution(node.el[i])}}
    ELSE {node}

\* Python's round(): round half to even, of the fraction num / den
RoundHalfEven(num, den) ==
    LET q == num \div den
        r == num % den
    IN IF 2 * r > den THEN q + 1
       ELSE IF 2 * r < den THEN q
       ELSE IF q % 2 = 0 THEN q ELSE q + 1

\* faulty variant: the amount is not raised to at least 1
amount_to_mutate_unclamped(temperature, free_param_count) ==
    RoundHalfEven(Max(0, Min(temperature, TempScale)) * free_param_count, TempScale)

\* amount_to_mutate of Search.mutate_from_best, temperature first clipped to [0, 1]
amount_to_mutate(temperature, free_param_count) ==
    LET clipped == Max(0, Min(temperature, TempScale))
    IN Max(RoundHalfEven(clipped * free_param_count, TempScale), 1)

(***************************************************************************)
(* The recursion of Search.mutate_from_best.  The shuffled bitmask has     *)
(* amount_to_mutate TRUE bits and one bit is consumed per Parameter        *)
(* visited, so the call can mutate any set of amount_to_mutate Parameter   *)
(* leaves.  mutate_rec yields every pair of a candidate and the number n   *)
(* of bits that were TRUE on the way; mutate_from_best keeps the pairs     *)
(* with n = amount_to_mutate.                                              *)
(***************************************************************************)
RECURSIVE mutate_rec(_, _)
mutate_rec(node, best_node) ==
    IF isParameter(node)
      THEN {[c |-> best_node, n |-> 0]} \cup {[c |-> V(x), n |-> 1] : x \in ParamValues}
    ELSE IF isDict(node)
      THEN LET K == DOMAIN node.kv
               sub(k) == mutate_rec(node.kv[k], best_node.kv[k])
           IN {[c |-> D([k \in K |-> g[k].c]), n |-> SumOver([k \in K |-> g[k].n], K)] :
                 g \in {h \in [K -> UNION {sub(k) : k \in K}] : \A k \in K : h[k] \in sub(k)}}
    ELSE IF isList(node)
      THEN LET K == DOMAIN node.el
               sub(i) == mutate_rec(node.el[i], best_node.el[i])
           IN {[c |-> L([i \in K |-> g[i].c]), n |-> SumOver([i \in K |-> g[i].n], K)] :
                 g \in {h \in [K -> UNION {sub(i) : i \in K}] : \A i \in K : h[i] \in sub(i)}}
    ELSE {[c |-> node, n |-> 0]}

mutate_from_best(temperature, node, best_node, free_param_count) ==
    {p.c : p \in {q \in mutate_rec(node, best_node) :
                     q.n = amount_to_mutate(temperature, free_param_count)}}


(***************************************************************************)
(* Exceptions: an operator that can raise returns Raise(e) or sets the     *)
(* field raised of the state record it returns.                            *)
(***************************************************************************)
NoError == "none"
Raise(e) == [t |-> "raise", error |-> e]
isRaise(x) == x.t = "raise"

\* faulty variant: the given keys replace whole subtrees of the best solution
enqueue_rec_shallow(node_best, node_candidate) ==
    IF isDict(node_best) /\ isDict(node_candidate)
      THEN D([k \in DOMAIN node_best.kv |->
                IF k \in DOMAIN node_candidate.kv THEN node_candidate.kv[k]
                ELSE node_best.kv[k]])
      ELSE node_candidate

\* Search._enqueue_rec
RECURSIVE enqueue_rec(_, _)
enqueue_rec(node_best, node_candidate) ==
    IF isDict(node_best) THEN
        IF ~isDict(node_candidate) THEN Raise("ValueError")
        ELSE IF \E k \in DOMAIN node_candidate.kv : k \notin DOMAIN node_best.kv
          THEN Raise("ValueError")
        ELSE LET sub == [k \in DOMAIN node_best.kv |->
                           IF k \in DOMAIN node_candidate.kv
                             THEN enqueue_rec(node_best.kv[k], node_candidate.kv[k])
                             ELSE node_best.kv[k]]
                 failed == {k \in DOMAIN sub : isRaise(sub[k])}
             IN IF failed # {} THEN sub[CHOOSE k \in failed : TRUE] ELSE D(sub)
    ELSE IF isList(node_best) THEN
        IF Len(node_best.el) = 0 THEN L(<<>>)
        \* len(node_candidate) of a value that has no length
        ELSE IF ~isList(node_candidate) /\ ~isDict(node_candidate) THEN Raise("TypeError")
        \* node_candidate[i] of a dict: its keys are strings
        ELSE IF isDict(node_candidate)
          THEN IF DOMAIN node_candidate.kv = {} THEN node_best ELSE Raise("KeyError")
        ELSE LET sub == [i \in DOMAIN node_best.el |->
                           IF Len(node_candidate.el) > i - 1
                             THEN enqueue_rec(node_best.el[i], node_candidate.el[i])
                             ELSE node_best.el[i]]
                 failed == {i \in DOMAIN sub : isRaise(sub[i])}
             IN IF failed # {} THEN sub[CHOOSE i \in failed : TRUE] ELSE L(sub)
    ELSE node_candidate

(***************************************************************************)
(* EvaluationCache: the committed candidates, the staged (in flight)       *)
(* candidates and the enable flag of the membership test.  The value       *)
(* committed with a candidate is never read back by Search and is not      *)
(* kept.                                                                   *)
(***************************************************************************)
EvaluationCache == [cache |-> {}, staged |-> {}, enabled |-> TRUE]

cache_stage(fc, candidate) == [fc EXCEPT !.staged = @ \cup {candidate}]
cache_commit(fc, candidate, value) ==
    [fc EXCEPT !.cache = @ \cup {candidate}, !.staged = @ \ {candidate}]
cache_contains(fc, candidate) ==
    fc.enabled /\ (candidate \in fc.cache \/ candidate \in fc.staged)
cache_forget(fc, candidate) ==
    [fc EXCEPT !.cache = @ \ {candidate}, !.staged = @ \ {candidate}]
cache_clear(fc) == [fc EXCEPT !.cache = {}, !.staged = {}]
cache_set_enable(fc, enabled) == [fc EXCEPT !.enabled = enabled]
cache_state_dict(fc) == [cache |-> fc.cache, staged |-> fc.staged]
cache_load_state_dict(fc, sd) == [fc EXCEPT !.cache = sd.cache, !.staged = sd.staged]

(***************************************************************************)
(* ScheduledRun: the budget of one run.  Exactly one of steps, timeout and *)
(* endless_mode may be given.  elapsed counts the ticks of the wall clock  *)
(* of a run with a timeout.                                                *)
(***************************************************************************)
ScheduledRun_invalid(steps, timeout, endless_mode) ==
    \/ steps # None /\ timeout # None
    \/ endless_mode /\ (steps # None \/ timeout # None)
    \/ ~endless_mode /\ steps = None /\ timeout = None

ScheduledRun(steps, timeout, endless_mode, seeding_steps) ==
    [max_steps |-> steps, timeout |-> timeout, endless_mode |-> endless_mode,
     seeding_steps |-> seeding_steps, step |-> 0, elapsed |-> 0,
     sigterm_received |-> FALSE]

NoSchedule == ScheduledRun(None, None, FALSE, 0)

schedule_is_timeout(sch) ==
    \/ sch.sigterm_received
    \/ sch.max_steps # None /\ sch.step >= sch.max_steps
    \/ sch.timeout # None /\ sch.elapsed >= sch.timeout

schedule_is_in_seeding_mode(sch) == sch.step < sch.seeding_steps

\* linear interpolation from start_temperature 1 to end_temperature 0
schedule_temperature(sch) ==
    IF sch.max_steps # None
      THEN Max(0, (TempScale * (sch.max_steps - sch.step)) \div Max(sch.max_steps, 1))
    ELSE IF sch.timeout # None
      THEN Max(0, (TempScale * (sch.timeout - sch.elapsed)) \div sch.timeout)
    ELSE TempScale

schedule_increment_step(sch) == [sch EXCEPT !.step = @ + 1]
schedule_signal_gradually_quit(sch) == [sch EXCEPT !.sigterm_received = TRUE]

(***************************************************************************)
(* Candidate results (parallel.execute): the outcome of one invocation of  *)
(* the objective function.                                                 *)
(***************************************************************************)
CandidateResult(value, error, is_nan, was_pruned) ==
    [value |-> value, error |-> error, is_nan |-> is_nan, was_pruned |-> was_pruned]

ObjValues == 1..MaxObj

\* the objective functions passed to run: "free" can produce any outcome,
\* "constant" always returns the value 1; the evaluation a pruner stops can
\* have yielded a number or NaN as its last intermediate value
Results(objective, pruner) ==
    IF objective = "constant" THEN {CandidateResult(1, FALSE, FALSE, FALSE)}
    ELSE {CandidateResult(v, FALSE, FALSE, FALSE) : v \in ObjValues}
         \cup {CandidateResult(None, TRUE, FALSE, FALSE)}
         \cup {CandidateResult(NaN, FALSE, TRUE, FALSE)}
         \cup (IF pruner # None
                 THEN {CandidateResult(1, FALSE, FALSE, TRUE),
                       CandidateResult(NaN, FALSE, TRUE, TRUE)}
                 ELSE {})


(***************************************************************************)
(* State                                                                   *)
(***************************************************************************)
VARIABLES
    params,                      \* Search._params
    free_param_count,            \* Search._free_param_count
    best_solution,               \* Search._best_solution
    best_f,                      \* Search._best_f
    f_cache,                     \* Search._f_cache
    run_context,                 \* Search._run_context, NoContext for None
    schedule,                    \* the ScheduledRun of the run context
    manually_queued_candidates,  \* Search._manually_queued_candidates
    caught_exception,            \* Search._caught_exception
    history,                     \* Search._history: number of recorded evaluations
    pool,                        \* the pending tasks of run_context.task_executor
    current_temperature,         \* local variable of run
    objective,                   \* the objective function passed to run
    pc,                          \* position of the run call: "idle" when no call is active
    runs_left,                   \* number of run calls the behaviour can still make
    checkpoint,                  \* the checkpoint file, NoFile when it does not exist
    fresh,                       \* a second Search object, used to load checkpoints
    stats,                       \* counters of the current run
    last                         \* what the last operation did

vars == <<params, free_param_count, best_solution, best_f, f_cache, run_context,
          schedule, manually_queued_candidates, caught_exception, history, pool,
          current_temperature, objective, pc, runs_left, checkpoint, fresh, stats, last>>

NoContext == [t |-> "None"]
NoFile == [t |-> "None"]

\* RunContext(direction, pruner, ignore_nans, schedule, callbacks, task_executor, quiet);
\* n_jobs = 1 stands for task_executor = None
RunContext(direction, pruner, ignore_nans, n_jobs) ==
    [t |-> "RunContext", direction |-> direction, pruner |-> pruner,
     ignore_nans |-> ignore_nans, n_jobs |-> n_jobs, terminate |-> FALSE]

\* TaskManager
Task(candidate) ==
    [candidate |-> candidate, done |-> FALSE,
     result |-> CandidateResult(None, FALSE, FALSE, FALSE)]
task_executor_is_full(p, n_jobs) == Len(p) >= n_jobs
task_executor_submit(p, candidate) == Append(p, Task(candidate))
DoneTasks(p) == {i \in DOMAIN p : p[i].done}
RemoveAt(p, i) == [j \in 1..(Len(p) - 1) |-> IF j < i THEN p[j] ELSE p[j + 1]]

\* callback invocations are recorded as events
Event(e, c) == [e |-> e, c |-> c]
NoCandidate == V(None)

NoStats == [shutdowns |-> 0, submitted |-> 0, processed |-> 0, rejected |-> 0,
            errors |-> 0, inline |-> TRUE]
NoArgs == [steps |-> None, timeout |-> None, endless_mode |-> FALSE, restore |-> FALSE]
Last(op) == [op |-> op, args |-> NoArgs, input |-> V(None), events |-> <<>>, processed |-> <<>>,
             submitted |-> <<>>, rejected |-> <<>>, raised |-> NoError]

(***************************************************************************)
(* The state an operation works on, as one record; an operation is an      *)
(* operator from such a record to the record after it.                     *)
(***************************************************************************)
Self(op) ==
    [best_solution |-> best_solution, best_f |-> best_f, f_cache |-> f_cache,
     run_context |-> run_context, schedule |-> schedule,
     caught_exception |-> caught_exception, history |-> history, pool |-> pool,
     stats |-> stats, last |-> Last(op)]

Raised(s) == s.last.raised # NoError
Throw(s, e) == [s EXCEPT !.last.raised = e]
Callbacks(s, e, c) == [s EXCEPT !.last.events = Append(@, Event(e, c))]

\* Search._shutdown_worker_processes
shutdown_worker_processes(s) ==
    LET s1 == [s EXCEPT !.stats.shutdowns = @ + 1]
    IN IF s.run_context.n_jobs # 1 THEN [s1 EXCEPT !.pool = <<>>] ELSE s1

\* faulty variant: a result that ties with the best replaces it
is_new_best_or_tie(bf, direction, value) ==
    \/ bf = None
    \/ direction = "max" /\ value >= bf
    \/ direction = "min" /\ value <= bf

\* the comparison of Search._async_result_ready, lines 521-531
is_new_best(bf, direction, value) ==
    \/ bf = None
    \/ direction = "max" /\ value > bf
    \/ direction = "min" /\ value < bf

\* faulty variant: every error result tears down and raises
handle_error_every_time(s) ==
    Throw(shutdown_worker_processes([s EXCEPT !.caught_exception = TRUE]),
          "ObjectiveError")

\* faulty variant: an error result is dropped and the search goes on
handle_error_swallowed(s) == s

\* Search._async_result_ready, lines 479-490: the result carries an error
handle_error(s) ==
    IF ~s.caught_exception
      THEN Throw(shutdown_worker_processes([s EXCEPT !.caught_exception = TRUE]),
                 "ObjectiveError")
      ELSE s

\* faulty variant: the result handler does not commit the value to the cache
commit_result_skipped(s, candidate, candidate_result) == s

\* Search._async_result_ready, line 495
commit_result(s, candidate, candidate_result) ==
    [s EXCEPT !.f_cache = cache_commit(@, candidate, candidate_result.value)]

\* faulty variant: a NaN result is fatal whatever ignore_nans says
nan_is_fatal_always(s, candidate_result) == candidate_result.is_nan

\* Search._async_result_ready, line 491
nan_is_fatal(s, candidate_result) ==
    candidate_result.is_nan /\ ~s.run_context.ignore_nans

\* Search._async_result_ready
async_result_ready(s0, candidate, candidate_result) ==
    LET s == [s0 EXCEPT !.last.processed =
                            Append(@, [candidate |-> candidate, result |-> candidate_result]),
                        !.stats.processed = @ + 1,
                        !.stats.errors = IF candidate_result.error THEN @ + 1 ELSE @]
    IN
    IF candidate_result.error THEN handle_error(s)
    ELSE IF nan_is_fatal(s, candidate_result) THEN Throw(s, "NaNError")
    ELSE
    LET s1 == commit_result(s, candidate, candidate_result)
        s2 == IF s.run_context.pruner # None /\ ~candidate_result.is_nan
                THEN Callbacks(s1, "pruner.append", candidate) ELSE s1
    IN
    IF candidate_result.was_pruned THEN Callbacks(s2, "on_evaluate_pruned", candidate)
    ELSE IF candidate_result.is_nan THEN Callbacks(s2, "on_evaluate_nan", candidate)
    ELSE
    LET s3 == [Callbacks(s2, "on_evaluate_end", candidate) EXCEPT !.history = @ + 1]
    IN
    IF is_new_best(s3.best_f, s3.run_context.direction, candidate_result.value)
      THEN Callbacks([s3 EXCEPT !.best_solution = candidate,
                                !.best_f = candidate_result.value],
                     "on_new_best", candidate)
      ELSE s3

\* faulty variant: the candidate is submitted without being staged in the cache
submit_candidate_unstaged(s, candidate_type, candidate, candidate_result) ==
    LET s1 == Callbacks(s, "on_evaluate_start", candidate)
        s2 == [s1 EXCEPT !.stats.submitted = @ + 1,
                         !.last.submitted =
                             Append(@, [candidate |-> candidate, type |-> candidate_type])]
    IN IF s2.run_context.n_jobs = 1
         THEN async_result_ready(s2, candidate, candidate_result)
         ELSE [s2 EXCEPT !.pool = task_executor_submit(@, candidate)]

\* faulty variant: on_evaluate_start is called after the result was handled
submit_candidate_announced_late(s, candidate_type, candidate, candidate_result) ==
    LET s2 == [s EXCEPT !.f_cache = cache_stage(@, candidate),
                        !.stats.submitted = @ + 1,
                        !.last.submitted =
                            Append(@, [candidate |-> candidate, type |-> candidate_type])]
        s3 == IF s2.run_context.n_jobs = 1
                THEN async_result_ready(s2, candidate, candidate_result)
                ELSE [s2 EXCEPT !.pool = task_executor_submit(@, candidate)]
    IN IF Raised(s3) THEN s3 ELSE Callbacks(s3, "on_evaluate_start", candidate)

\* Search._submit_candidate; candidate_result is the outcome of execute when
\* the candidate is evaluated inline
submit_candidate(s, candidate_type, candidate, candidate_result) ==
    LET s1 == Callbacks(s, "on_evaluate_start", candidate)
        s2 == [s1 EXCEPT !.f_cache = cache_stage(@, candidate),
                         !.stats.submitted = @ + 1,
                         !.last.submitted =
                             Append(@, [candidate |-> candidate, type |-> candidate_type])]
    IN IF s2.run_context.n_jobs = 1
         THEN async_result_ready(s2, candidate, candidate_result)
         ELSE [s2 EXCEPT !.pool = task_executor_submit(@, candidate)]


(***************************************************************************)
(* Checkpoints                                                             *)
(***************************************************************************)
\* RunContext.state_dict / RunContext.load_state_dict: the direction and the
\* progress of the schedule
run_context_state_dict(ctx, sch) ==
    [t |-> "RunContextState", direction |-> ctx.direction, step |-> sch.step,
     elapsed |-> sch.elapsed]
run_context_load_state_dict(s, sd) ==
    [s EXCEPT !.run_context.direction = sd.direction,
              !.schedule.step = sd.step,
              !.schedule.elapsed = sd.elapsed]

\* the state_dict built by Search.save, Raise(e) when save raises
save_state_dict(s, pruner_arg) ==
    LET bound == s.run_context # NoContext /\ s.run_context.pruner # None
    IN IF bound /\ pruner_arg # None /\ pruner_arg # s.run_context.pruner
         THEN Raise("ValueError")
       ELSE
       LET pruner == IF bound THEN s.run_context.pruner ELSE pruner_arg
           state_dict ==
               [t |-> "state_dict",
                run_context |-> IF s.run_context = NoContext \/ s.run_context.terminate
                                  THEN NoContext
                                  ELSE run_context_state_dict(s.run_context, s.schedule),
                cache |-> cache_state_dict(s.f_cache),
                best_f |-> s.best_f,
                history |-> s.history,
                best_solution |-> s.best_solution]
       IN IF pruner # None THEN state_dict @@ [pruner |-> pruner] ELSE state_dict

\* Search.load: applied to the state s with the content state_dict of the file
load(s, state_dict, pruner_arg) ==
    IF "run_context" \notin DOMAIN state_dict THEN Throw(s, "ValueError")
    ELSE IF state_dict.run_context # NoContext /\ s.run_context = NoContext
      \* self._run_context.load_state_dict with self._run_context = None
      THEN Throw(s, "AttributeError")
    ELSE
    LET s1 == IF state_dict.run_context # NoContext
                THEN run_context_load_state_dict(s, state_dict.run_context) ELSE s
    IN IF "cache" \notin DOMAIN state_dict THEN Throw(s1, "ValueError") ELSE
    LET s2 == [s1 EXCEPT !.f_cache = cache_load_state_dict(@, state_dict.cache)]
    IN IF "history" \notin DOMAIN state_dict THEN Throw(s2, "ValueError") ELSE
    LET s3 == [s2 EXCEPT !.history = state_dict.history]
    IN IF "best_f" \notin DOMAIN state_dict THEN Throw(s3, "ValueError") ELSE
    LET s4 == [s3 EXCEPT !.best_f = state_dict.best_f]
    IN IF "best_solution" \notin DOMAIN state_dict THEN Throw(s4, "ValueError") ELSE
    LET s5 == [s4 EXCEPT !.best_solution = state_dict.best_solution]
    IN IF /\ "pruner" \in DOMAIN state_dict
          /\ s5.run_context # NoContext
          /\ s5.run_context.pruner # None
          /\ pruner_arg # None
          /\ pruner_arg # s5.run_context.pruner
         THEN Throw(s5, "ValueError")
         ELSE s5

(***************************************************************************)
(* Operations                                                              *)
(***************************************************************************)
\* the variables an operation record carries
Apply(s) ==
    /\ best_solution' = s.best_solution
    /\ best_f' = s.best_f
    /\ f_cache' = s.f_cache
    /\ run_context' = s.run_context
    /\ schedule' = s.schedule
    /\ caught_exception' = s.caught_exception
    /\ history' = s.history
    /\ pool' = s.pool
    /\ stats' = s.stats
    /\ last' = s.last

\* an exception leaves run: the call is over, the rest of run is skipped
Goto(s, next_pc) == pc' = IF Raised(s) THEN "idle" ELSE next_pc

\* the arguments of run
Budgets ==
    [steps : 1..MaxSteps, timeout : {None}, endless_mode : {FALSE}]
    \cup {[steps |-> None, timeout |-> 1, endless_mode |-> FALSE],
          [steps |-> None, timeout |-> None, endless_mode |-> TRUE]}
InvalidBudgets ==
    {[steps |-> 1, timeout |-> 1, endless_mode |-> FALSE],
     [steps |-> 1, timeout |-> None, endless_mode |-> TRUE],
     [steps |-> None, timeout |-> 1, endless_mode |-> TRUE],
     [steps |-> 1, timeout |-> 1, endless_mode |-> TRUE],
     [steps |-> None, timeout |-> None, endless_mode |-> FALSE]}

Config(budget, direction, seeding_steps, pruner, n_jobs, ignore_nans, enable_rejection_cache, restore, objective_function) ==
    [steps |-> budget.steps, timeout |-> budget.timeout,
     endless_mode |-> budget.endless_mode, direction |-> direction,
     seeding_steps |-> seeding_steps, pruner |-> pruner, n_jobs |-> n_jobs,
     ignore_nans |-> ignore_nans, enable_rejection_cache |-> enable_rejection_cache,
     restore |-> restore, objective_function |-> objective_function]

\* the budgets, and the options of run varied around its defaults
DefaultConfig(budget, direction, n_jobs) ==
    Config(budget, direction, 1, None, n_jobs, FALSE, TRUE, FALSE, "free")

StepBudget(n) == [steps |-> n, timeout |-> None, endless_mode |-> FALSE]
TimeBudget == [steps |-> None, timeout |-> 1, endless_mode |-> FALSE]
Endless == [steps |-> None, timeout |-> None, endless_mode |-> TRUE]

\* the calls of run of a single-run behaviour: both directions, inline and
\* pooled, every kind of budget, and each option switched away from its default
Configs ==
    {DefaultConfig(StepBudget(MaxSteps), d, n) : d \in {"max", "min"}, n \in 1..MaxJobs}
    \cup {DefaultConfig(TimeBudget, "max", 1), DefaultConfig(Endless, "max", MaxJobs)}
    \cup {DefaultConfig(b, "max", 1) : b \in InvalidBudgets}
    \cup {Config(StepBudget(MaxSteps), "max", 1, None, n, FALSE, FALSE, FALSE, "free") :
            n \in 1..MaxJobs}
    \cup {Config(StepBudget(MaxSteps), "max", 0, 1, 1, TRUE, TRUE, FALSE, "free")}

\* faulty variant: the budget arguments are checked after the search has been started
RunConfigError_after_start(cfg) ==
    /\ pc = "idle"
    /\ runs_left > 0
    /\ ScheduledRun_invalid(cfg.steps, cfg.timeout, cfg.endless_mode)
    /\ caught_exception' = FALSE
    /\ runs_left' = runs_left - 1
    /\ f_cache' = cache_set_enable(f_cache, cfg.enable_rejection_cache)
    /\ last' = [Last("run") EXCEPT
                  !.raised = "ValueError",
                  !.events = <<Event("on_search_start", NoCandidate)>>,
                  !.args = [steps |-> cfg.steps, timeout |-> cfg.timeout,
                            endless_mode |-> cfg.endless_mode,
                                   restore |-> cfg.restore]]
    /\ UNCHANGED <<params, free_param_count, best_solution, best_f,
                   run_context, schedule, manually_queued_candidates, history, pool,
                   current_temperature, objective, pc, checkpoint, fresh, stats>>

\* Search.run, lines 622-635: the schedule rejects the budget arguments
RunConfigError(cfg) ==
    /\ pc = "idle"
    /\ runs_left > 0
    /\ ScheduledRun_invalid(cfg.steps, cfg.timeout, cfg.endless_mode)
    /\ caught_exception' = FALSE
    /\ runs_left' = runs_left - 1
    /\ last' = [Last("run") EXCEPT
                  !.raised = "ValueError",
                  !.args = [steps |-> cfg.steps, timeout |-> cfg.timeout,
                            endless_mode |-> cfg.endless_mode,
                                   restore |-> cfg.restore]]
    /\ UNCHANGED <<params, free_param_count, best_solution, best_f, f_cache,
                   run_context, schedule, manually_queued_candidates, history, pool,
                   current_temperature, objective, pc, checkpoint, fresh, stats>>

\* the result of execute for a candidate evaluated inline; a pool produces
\* the result later, in TaskCompletes
InlineResults(n_jobs, objective_function, pruner) ==
    IF n_jobs = 1 THEN Results(objective_function, pruner)
    ELSE {CandidateResult(None, FALSE, FALSE, FALSE)}

\* faulty variant: the evaluation of the initial guess does not count as a step
evaluate_initial_guess_without_step(s, candidate_result) ==
    IF s.best_f = None /\ Len(manually_queued_candidates) = 0
      THEN submit_candidate(s, "INIT", s.best_solution, candidate_result)
      ELSE s

\* faulty variant: the baseline is evaluated although candidates are queued
evaluate_initial_guess_despite_queue(s, candidate_result) ==
    IF s.best_f = None
      THEN LET s1 == submit_candidate(s, "INIT", s.best_solution, candidate_result)
           IN IF Raised(s1) THEN s1
              ELSE [s1 EXCEPT !.schedule = schedule_increment_step(@)]
      ELSE s

\* Search.run, lines 678-687: the baseline evaluation of the initial guess
evaluate_initial_guess(s, candidate_result) ==
    IF s.best_f = None /\ Len(manually_queued_candidates) = 0
      THEN LET s1 == submit_candidate(s, "INIT", s.best_solution, candidate_result)
           IN IF Raised(s1) THEN s1
              ELSE [s1 EXCEPT !.schedule = schedule_increment_step(@)]
      ELSE s

\* Search.run, lines 622-691: up to the first _wait_for_one_free_executor
RunStart(cfg, candidate_result) ==
    /\ pc = "idle"
    /\ runs_left > 0
    /\ ~ScheduledRun_invalid(cfg.steps, cfg.timeout, cfg.endless_mode)
    /\ candidate_result \in InlineResults(cfg.n_jobs, cfg.objective_function, cfg.pruner)
    /\ LET s0 == [Self("run") EXCEPT
                    !.last.args = [steps |-> cfg.steps, timeout |-> cfg.timeout,
                                   endless_mode |-> cfg.endless_mode,
                                   restore |-> cfg.restore],
                    !.caught_exception = FALSE,
                    !.schedule = ScheduledRun(cfg.steps, cfg.timeout, cfg.endless_mode,
                                              cfg.seeding_steps),
                    !.pool = <<>>,
                    !.stats = [NoStats EXCEPT !.inline = (cfg.n_jobs = 1)],
                    !.run_context = RunContext(cfg.direction, cfg.pruner,
                                               cfg.ignore_nans, cfg.n_jobs),
                    !.f_cache = cache_set_enable(@, cfg.enable_rejection_cache)]
           s1 == IF cfg.restore /\ checkpoint # NoFile
                   THEN load(s0, checkpoint, None) ELSE s0
           s2 == IF Raised(s1) THEN s1 ELSE Callbacks(s1, "on_search_start", NoCandidate)
           s4 == IF Raised(s2) THEN s2 ELSE evaluate_initial_guess(s2, candidate_result)
       IN /\ Apply(s4)
          /\ Goto(s4, "wait")
          /\ current_temperature' = schedule_temperature(s4.schedule)
    /\ objective' = cfg.objective_function
    /\ runs_left' = runs_left - 1
    /\ UNCHANGED <<params, free_param_count, manually_queued_candidates, checkpoint, fresh>>


\* run, lines 720-723: the temperature after a rejected duplicate
reject_temperature(temperature) == Max((temperature * 105) \div 100, TempScale)

\* faulty variant: the duplicate is announced and staged before it is dropped
reject_candidate_started(s, candidate) ==
    [Callbacks(s, "on_evaluate_start", candidate) EXCEPT
              !.f_cache = cache_stage(@, candidate),
              !.last.rejected = Append(@, candidate),
              !.stats.rejected = @ + 1,
              !.schedule = schedule_increment_step(@)]

\* faulty variant: a rejected duplicate does not count as a step
reject_candidate_without_step(s, candidate) ==
    [s EXCEPT !.last.rejected = Append(@, candidate),
              !.stats.rejected = @ + 1]

\* run, lines 718-724: the candidate is a duplicate, the step is counted
reject_candidate(s, candidate) ==
    [s EXCEPT !.last.rejected = Append(@, candidate),
              !.stats.rejected = @ + 1,
              !.schedule = schedule_increment_step(@)]

\* Search.mutate_from_best, lines 414-427: best_node[k] and best_node[i] exist
\* for every key and index of the search space
RECURSIVE has_positions_of(_, _)
has_positions_of(best_node, node) ==
    IF isDict(node)
      THEN /\ isDict(best_node)
           /\ \A k \in DOMAIN node.kv :
                 /\ k \in DOMAIN best_node.kv
                 /\ has_positions_of(best_node.kv[k], node.kv[k])
    ELSE IF isList(node)
      THEN /\ isList(best_node)
           /\ \A i \in DOMAIN node.el :
                 /\ i \in DOMAIN best_node.el
                 /\ has_positions_of(best_node.el[i], node.el[i])
    ELSE TRUE

\* faulty variant: the iteration tries the candidate that was queued last
NextCandidates_newest_first ==
    IF Len(manually_queued_candidates) > 0
      THEN {[candidate |-> manually_queued_candidates[Len(manually_queued_candidates)],
             type |-> "MANUALLY_ADDED"]}
    ELSE IF schedule_is_in_seeding_mode(schedule)
      THEN {[candidate |-> c, type |-> "RANDOM_SEEDING"] : c \in sample_solution(params)}
    ELSE IF ~has_positions_of(best_solution, params) THEN {}
    ELSE {[candidate |-> c, type |-> "LOCAL_SAMPLING"] :
             c \in mutate_from_best(current_temperature, params, best_solution,
                                    free_param_count)}

\* run, lines 700-708: the candidates the iteration can try, with their type
NextCandidates ==
    IF Len(manually_queued_candidates) > 0
      THEN {[candidate |-> Head(manually_queued_candidates), type |-> "MANUALLY_ADDED"]}
    ELSE IF schedule_is_in_seeding_mode(schedule)
      THEN {[candidate |-> c, type |-> "RANDOM_SEEDING"] : c \in sample_solution(params)}
    ELSE IF ~has_positions_of(best_solution, params) THEN {}
    ELSE {[candidate |-> c, type |-> "LOCAL_SAMPLING"] :
             c \in mutate_from_best(current_temperature, params, best_solution,
                                    free_param_count)}

\* a run without a step budget takes at most MaxSteps steps in the model
StepAllowed == schedule.max_steps # None \/ schedule.step < MaxSteps

\* Search.run, lines 692-698: the search space has nothing to tune
LoopNoParameters ==
    /\ pc = "loop"
    /\ ~schedule_is_timeout(schedule)
    /\ free_param_count = 0 /\ Len(manually_queued_candidates) = 0
    /\ pc' = "idle"
    /\ last' = [Last("run") EXCEPT !.raised = "ValueError"]
    /\ UNCHANGED <<params, free_param_count, best_solution, best_f, f_cache,
                   run_context, schedule, manually_queued_candidates, caught_exception,
                   history, pool, current_temperature, objective, runs_left, checkpoint,
                   fresh, stats>>

\* Search.run, lines 692-726: one iteration of the search loop
LoopBody ==
    /\ pc = "loop"
    /\ ~schedule_is_timeout(schedule)
    /\ StepAllowed
    /\ ~(free_param_count = 0 /\ Len(manually_queued_candidates) = 0)
    /\ manually_queued_candidates' =
           IF Len(manually_queued_candidates) > 0
             THEN Tail(manually_queued_candidates) ELSE manually_queued_candidates
    /\ \E next \in NextCandidates :
         IF ~cache_contains(f_cache, next.candidate)
           THEN \E candidate_result \in
                     InlineResults(run_context.n_jobs, objective, run_context.pruner) :
                  LET s1 == submit_candidate(Self("run"), next.type, next.candidate,
                                             candidate_result)
                      s2 == IF Raised(s1) THEN s1
                            ELSE [s1 EXCEPT !.schedule = schedule_increment_step(@)]
                  IN /\ Apply(s2)
                     /\ Goto(s2, "wait")
                     /\ current_temperature' = schedule_temperature(schedule)
           ELSE LET s1 == reject_candidate(Self("run"), next.candidate)
                IN /\ Apply(s1)
                   /\ Goto(s1, "wait")
                   /\ current_temperature' = reject_temperature(current_temperature)
    /\ UNCHANGED <<params, free_param_count, objective, runs_left, checkpoint, fresh>>

\* Search.run, line 708: mutate_from_best looks up a key of the search space
\* that the best solution does not have, the KeyError leaves run
LoopMutateError ==
    /\ pc = "loop"
    /\ ~schedule_is_timeout(schedule)
    /\ StepAllowed
    /\ free_param_count # 0
    /\ Len(manually_queued_candidates) = 0
    /\ ~schedule_is_in_seeding_mode(schedule)
    /\ ~has_positions_of(best_solution, params)
    /\ pc' = "idle"
    /\ last' = [Last("run") EXCEPT !.raised = "KeyError"]
    /\ UNCHANGED <<params, free_param_count, best_solution, best_f, f_cache,
                   run_context, schedule, manually_queued_candidates, caught_exception,
                   history, pool, current_temperature, objective, runs_left, checkpoint,
                   fresh, stats>>

\* Search._wait_for_one_free_executor: a finished task is handed to
\* _async_result_ready
WaitDrain ==
    /\ pc = "wait"
    /\ run_context.n_jobs # 1
    /\ DoneTasks(pool) # {}
    /\ LET i == CHOOSE j \in DoneTasks(pool) : \A k \in DoneTasks(pool) : j <= k
           s1 == [Self("drain") EXCEPT !.pool = RemoveAt(@, i)]
           s2 == async_result_ready(s1, pool[i].candidate, pool[i].result)
       IN /\ Apply(s2)
          /\ Goto(s2, "wait")
    /\ UNCHANGED <<params, free_param_count, manually_queued_candidates,
                   current_temperature, objective, runs_left, checkpoint, fresh>>

\* faulty variant: the loop goes on without waiting for a free slot
WaitReturn_without_waiting ==
    /\ pc = "wait"
    /\ \/ run_context.n_jobs = 1
       \/ DoneTasks(pool) = {}
    /\ pc' = "loop"
    /\ last' = Last("wait")
    /\ UNCHANGED <<params, free_param_count, best_solution, best_f, f_cache,
                   run_context, schedule, manually_queued_candidates, caught_exception,
                   history, pool, current_temperature, objective, runs_left, checkpoint,
                   fresh, stats>>

\* Search._wait_for_one_free_executor returns: no finished task is left and
\* the pool has a free slot
WaitReturn ==
    /\ pc = "wait"
    /\ \/ run_context.n_jobs = 1
       \/ /\ DoneTasks(pool) = {}
          /\ ~task_executor_is_full(pool, run_context.n_jobs)
    /\ pc' = "loop"
    /\ last' = Last("wait")
    /\ UNCHANGED <<params, free_param_count, best_solution, best_f, f_cache,
                   run_context, schedule, manually_queued_candidates, caught_exception,
                   history, pool, current_temperature, objective, runs_left, checkpoint,
                   fresh, stats>>

\* Search.run, lines 692 and 728: the budget check ends the loop
LoopExit ==
    /\ pc = "loop"
    /\ schedule_is_timeout(schedule)
    /\ run_context' = [run_context EXCEPT !.terminate = TRUE]
    /\ pc' = "final"
    /\ last' = Last("exit")
    /\ UNCHANGED <<params, free_param_count, best_solution, best_f, f_cache,
                   schedule, manually_queued_candidates, caught_exception,
                   history, pool, current_temperature, objective, runs_left, checkpoint,
                   fresh, stats>>

\* faulty variant: the results of the tasks still running are thrown away
FinalDrain_discarding ==
    /\ pc = "final"
    /\ pool # <<>>
    /\ \A i \in DOMAIN pool : pool[i].done
    /\ pool' = <<>>
    /\ last' = Last("drain")
    /\ UNCHANGED <<params, free_param_count, best_solution, best_f, f_cache,
                   run_context, schedule, manually_queued_candidates, caught_exception,
                   history, current_temperature, objective, pc, runs_left, checkpoint,
                   fresh, stats>>

\* Search._wait_for_all_running_jobs: all tasks have finished, one of them is
\* handed to _async_result_ready
FinalDrain ==
    /\ pc = "final"
    /\ pool # <<>>
    /\ \A i \in DOMAIN pool : pool[i].done
    /\ LET s1 == [Self("drain") EXCEPT !.pool = Tail(@)]
           s2 == async_result_ready(s1, pool[1].candidate, pool[1].result)
       IN /\ Apply(s2)
          /\ Goto(s2, "final")
    /\ UNCHANGED <<params, free_param_count, manually_queued_candidates,
                   current_temperature, objective, runs_left, checkpoint, fresh>>

\* faulty variant: run returns without waiting for the running jobs
SearchEnd_without_waiting ==
    /\ pc = "final"
    /\ run_context' = NoContext
    /\ pc' = "idle"
    /\ last' = [Last("return") EXCEPT
                  !.events = <<Event("on_search_end", NoCandidate)>>]
    /\ UNCHANGED <<params, free_param_count, best_solution, best_f, f_cache,
                   schedule, manually_queued_candidates, caught_exception,
                   history, pool, current_temperature, objective, runs_left, checkpoint,
                   fresh, stats>>

\* Search.run, lines 731-739: nothing is in flight, run returns
SearchEnd ==
    /\ pc = "final"
    /\ pool = <<>>
    /\ run_context' = NoContext
    /\ pc' = "idle"
    /\ last' = [Last("return") EXCEPT
                  !.events = <<Event("on_search_end", NoCandidate)>>]
    /\ UNCHANGED <<params, free_param_count, best_solution, best_f, f_cache,
                   schedule, manually_queued_candidates, caught_exception,
                   history, pool, current_temperature, objective, runs_left, checkpoint,
                   fresh, stats>>

\* a worker of the pool finishes the evaluation of a task
TaskCompletes(i, candidate_result) ==
    /\ pc # "idle"
    /\ i \in DOMAIN pool
    /\ ~pool[i].done
    /\ candidate_result \in Results(objective, run_context.pruner)
    /\ pool' = [pool EXCEPT ![i].done = TRUE, ![i].result = candidate_result]
    /\ last' = Last("worker")
    /\ UNCHANGED <<params, free_param_count, best_solution, best_f, f_cache,
                   run_context, schedule, manually_queued_candidates, caught_exception,
                   history, current_temperature, objective, pc, runs_left, checkpoint,
                   fresh, stats>>

\* the signal registered in run, line 662: ScheduledRun.signal_gradually_quit
Signal ==
    /\ pc \in {"wait", "loop"}
    /\ ~schedule.sigterm_received
    /\ schedule' = schedule_signal_gradually_quit(schedule)
    /\ last' = Last("signal")
    /\ UNCHANGED <<params, free_param_count, best_solution, best_f, f_cache,
                   run_context, manually_queued_candidates, caught_exception,
                   history, pool, current_temperature, objective, pc, runs_left, checkpoint,
                   fresh, stats>>

\* the wall clock of a run with a timeout advances
Tick ==
    /\ pc # "idle"
    /\ schedule.timeout # None
    /\ schedule.elapsed < schedule.timeout
    /\ schedule' = [schedule EXCEPT !.elapsed = @ + 1]
    /\ last' = Last("tick")
    /\ UNCHANGED <<params, free_param_count, best_solution, best_f, f_cache,
                   run_context, manually_queued_candidates, caught_exception,
                   history, pool, current_temperature, objective, pc, runs_left, checkpoint,
                   fresh, stats>>

\* the partial candidates passed to enqueue
EnqueueInputs ==
    {D([a |-> V(0)]), D([a |-> V(1)]), D([b |-> L(<<V(1)>>)]),
     D([a |-> V(0), b |-> L(<<V(1), V(7)>>)])}

\* Search.enqueue
Enqueue(candidate) ==
    /\ pc = "idle"
    /\ runs_left > 0
    /\ Len(manually_queued_candidates) < MaxQueue
    /\ LET added_candidate == enqueue_rec(best_solution, candidate)
       IN IF isRaise(added_candidate)
            THEN /\ last' = [Last("enqueue") EXCEPT !.raised = added_candidate.error,
                                                    !.input = candidate]
                 /\ UNCHANGED manually_queued_candidates
            ELSE /\ last' = [Last("enqueue") EXCEPT !.input = candidate]
                 /\ manually_queued_candidates' =
                        Append(manually_queued_candidates, added_candidate)
    /\ UNCHANGED <<params, free_param_count, best_solution, best_f, f_cache,
                   run_context, schedule, caught_exception, history, pool,
                   current_temperature, objective, pc, runs_left, checkpoint, fresh, stats>>

\* Search.forget_cached
ForgetCached(candidate) ==
    /\ pc = "idle"
    /\ runs_left > 0
    /\ candidate \in f_cache.cache \cup f_cache.staged
    /\ f_cache' = cache_forget(f_cache, candidate)
    /\ last' = [Last("forget_cached") EXCEPT !.input = candidate]
    /\ UNCHANGED <<params, free_param_count, best_solution, best_f,
                   run_context, schedule, manually_queued_candidates, caught_exception,
                   history, pool, current_temperature, objective, pc, runs_left, checkpoint,
                   fresh, stats>>

\* Search.clear_cache
ClearCache ==
    /\ pc = "idle"
    /\ runs_left > 0
    /\ f_cache' = cache_clear(f_cache)
    /\ last' = Last("clear_cache")
    /\ UNCHANGED <<params, free_param_count, best_solution, best_f,
                   run_context, schedule, manually_queued_candidates, caught_exception,
                   history, pool, current_temperature, objective, pc, runs_left, checkpoint,
                   fresh, stats>>

\* Search.__init__; the behaviour makes at most n calls of run
Construct(n) ==
    /\ params = SearchSpace
    /\ best_solution = get_initial_solution(SearchSpace)
    /\ free_param_count = count_free_parameters_rec(SearchSpace)
    /\ best_f = None
    /\ f_cache = EvaluationCache
    /\ run_context = NoContext
    /\ schedule = NoSchedule
    /\ manually_queued_candidates = <<>>
    /\ caught_exception = FALSE
    /\ history = 0
    /\ pool = <<>>
    /\ current_temperature = TempScale
    /\ objective = "free"
    /\ pc = "idle"
    /\ runs_left = n
    /\ checkpoint = NoFile
    /\ fresh = NoFile
    /\ stats = NoStats
    /\ last = Last("init")

AllCandidates == sample_solution(SearchSpace)
NoResult == CandidateResult(None, FALSE, FALSE, FALSE)
AnyResult == Results("free", 1) \cup {NoResult}

\* the steps of a run, whatever its arguments
RunSteps ==
    \/ LoopBody
    \/ WaitDrain
    \/ WaitReturn
    \/ LoopExit
    \/ FinalDrain
    \/ SearchEnd
    \/ \E i \in DOMAIN pool : \E r \in AnyResult : TaskCompletes(i, r)
    \/ Signal
    \/ Tick

(***************************************************************************)
(* Spec: one Search object and one call of run, preceded by enqueue calls. *)
(***************************************************************************)
Init == Construct(1)

Next ==
    \/ \E cfg \in Configs : RunConfigError(cfg)
    \/ \E cfg \in Configs :
         \E r \in AnyResult : RunStart(cfg, r)
    \/ \E c \in EnqueueInputs : Enqueue(c)
    \/ RunSteps

Spec == Init /\ [][Next]_vars


\* the pruner objects passed to save and load
Pruners == {None, 1, 2}

\* Search.save; a callback of a run can call it while the run is active
Save(pruner_arg) ==
    /\ runs_left > 0 \/ pc # "idle"
    /\ LET state_dict == save_state_dict(Self("save"), pruner_arg)
       IN IF isRaise(state_dict)
            THEN /\ last' = [Last("save") EXCEPT !.raised = state_dict.error]
                 /\ UNCHANGED checkpoint
            ELSE /\ last' = Last("save")
                 /\ checkpoint' = state_dict
    /\ UNCHANGED <<params, free_param_count, best_solution, best_f, f_cache,
                   run_context, schedule, manually_queued_candidates, caught_exception,
                   history, pool, current_temperature, objective, pc, runs_left,
                   fresh, stats>>

\* Search.load, called between two runs
Load(pruner_arg) ==
    /\ pc = "idle"
    /\ runs_left > 0
    /\ checkpoint # NoFile
    /\ Apply(load([Self("load") EXCEPT !.last.input = V(pruner_arg)], checkpoint, pruner_arg))
    /\ UNCHANGED <<params, free_param_count, manually_queued_candidates,
                   current_temperature, objective, pc, runs_left, checkpoint, fresh>>

\* a Search object constructed with the same search space
FreshSearch(op) ==
    [best_solution |-> get_initial_solution(params), best_f |-> None,
     f_cache |-> EvaluationCache, run_context |-> NoContext, schedule |-> NoSchedule,
     caught_exception |-> FALSE, history |-> 0, pool |-> <<>>,
     stats |-> NoStats, last |-> Last(op)]

\* Search.load on a fresh Search object, once the runs of the saving object
\* are over: the file holds whatever the last save wrote, during a run or
\* between runs
LoadFresh ==
    /\ pc = "idle"
    /\ runs_left = 0
    /\ checkpoint # NoFile
    /\ fresh = NoFile
    /\ fresh' = load(FreshSearch("load"), checkpoint, None)
    /\ last' = Last("load_fresh")
    /\ UNCHANGED <<params, free_param_count, best_solution, best_f, f_cache,
                   run_context, schedule, manually_queued_candidates, caught_exception,
                   history, pool, current_temperature, objective, pc, runs_left,
                   checkpoint, stats>>

(***************************************************************************)
(* SpecRuns: one Search object, several inline runs, with enqueue,         *)
(* forget_cached and clear_cache called between them.                      *)
(***************************************************************************)
RerunConfigs ==
    {Config(StepBudget(RerunSteps), d, 1, None, 1, FALSE, en, FALSE, "free") :
        d \in {"max", "min"}, en \in BOOLEAN}

InitRuns == Construct(MaxRuns)

NextRuns ==
    \/ \E cfg \in RerunConfigs : \E r \in AnyResult : RunStart(cfg, r)
    \/ \E c \in EnqueueInputs : Enqueue(c)
    \/ \E c \in AllCandidates : ForgetCached(c)
    \/ ClearCache
    \/ LoopBody
    \/ WaitReturn
    \/ LoopExit
    \/ SearchEnd

SpecRuns == InitRuns /\ [][NextRuns]_vars

(***************************************************************************)
(* SpecCheckpoint: inline runs with save, load and the restore of a        *)
(* checkpoint at the start of run.                                         *)
(***************************************************************************)
CheckpointConfigs ==
    {Config(StepBudget(RerunSteps), "max", 1, pr, 1, FALSE, TRUE, restore, "free") :
        pr \in {None, 1}, restore \in BOOLEAN}

InitCheckpoint == Construct(MaxRuns)

NextCheckpoint ==
    \/ \E cfg \in CheckpointConfigs : \E r \in AnyResult : RunStart(cfg, r)
    \/ \E pr \in Pruners : Save(pr)
    \/ \E pr \in Pruners : Load(pr)
    \/ LoadFresh
    \/ LoopBody
    \/ WaitReturn
    \/ LoopExit
    \/ SearchEnd

SpecCheckpoint == InitCheckpoint /\ [][NextCheckpoint]_vars

(***************************************************************************)
(* SpecConstant: one run with a step budget of ClaimSteps and a constant   *)
(* objective, inline and pooled.                                           *)
(***************************************************************************)
ConstantConfigs ==
    {Config(StepBudget(ClaimSteps), d, 1, None, n, FALSE, TRUE, FALSE, "constant") :
        d \in {"max", "min"}, n \in 1..MaxJobs}

NextConstant ==
    \/ \E cfg \in ConstantConfigs : \E r \in AnyResult : RunStart(cfg, r)
    \/ LoopBody
    \/ WaitDrain
    \/ WaitReturn
    \/ LoopExit
    \/ FinalDrain
    \/ SearchEnd
    \/ \E i \in DOMAIN pool : \E r \in AnyResult : TaskCompletes(i, r)

SpecConstant == Init /\ [][NextConstant]_vars

(***************************************************************************)
(* SpecConstantFair: SpecConstant where the thread of run keeps running    *)
(* and every evaluation of the objective function comes to an end.         *)
(***************************************************************************)
SpecConstantFair == Init /\ [][NextConstant]_vars /\ WF_vars(NextConstant)

(***************************************************************************)
(* SpecCorrupt: as SpecCheckpoint, with checkpoint files that lack one of  *)
(* the keys load reads.                                                    *)
(***************************************************************************)
\* the keys of the checkpoint record that load reads unconditionally
RequiredKeys == {"run_context", "cache", "history", "best_f", "best_solution"}

\* the checkpoint file is replaced by a record without the key
Corrupt(key) ==
    /\ checkpoint # NoFile
    /\ RequiredKeys \subseteq DOMAIN checkpoint
    /\ checkpoint' = [k \in DOMAIN checkpoint \ {key} |-> checkpoint[k]]
    /\ last' = Last("corrupt")
    /\ UNCHANGED <<params, free_param_count, best_solution, best_f, f_cache,
                   run_context, schedule, manually_queued_candidates, caught_exception,
                   history, pool, current_temperature, objective, pc, runs_left,
                   fresh, stats>>

CorruptConfigs ==
    {Config(StepBudget(RerunSteps), "max", 1, 1, 1, FALSE, TRUE, restore, "constant") :
        restore \in BOOLEAN}

InitCorrupt == Construct(MaxRuns)

NextCorrupt ==
    \/ \E cfg \in CorruptConfigs : \E r \in AnyResult : RunStart(cfg, r)
    \/ \E pr \in Pruners : Save(pr)
    \/ \E key \in RequiredKeys : Corrupt(key)
    \/ \E pr \in Pruners : Load(pr)
    \/ LoadFresh
    \/ LoopBody
    \/ WaitReturn
    \/ LoopExit
    \/ SearchEnd

SpecCorrupt == InitCorrupt /\ [][NextCorrupt]_vars

(***************************************************************************)
(* SpecEnqueue: enqueue is called with candidates that match the search    *)
(* space and with candidates that do not, before and between inline runs.  *)
(***************************************************************************)
\* candidates that do not have the structure of the search space
MismatchedInputs ==
    {D([z |-> V(1)]),                         \* a key that is not registered
     V(3),                                    \* not a mapping
     D([b |-> V(3)]),                         \* a number where a list is registered
     D([b |-> D([x |-> V(1)])]),              \* a mapping where a list is registered
     D([b |-> D(<<>>)]),                      \* an empty mapping where a list is registered
     D([a |-> D([x |-> V(1)])]),              \* a mapping where a leaf is registered
     D([a |-> L(<<V(1)>>)]),                  \* a list where a leaf is registered
     D([b |-> L(<<D([x |-> V(1)])>>)])}       \* a mapping at a leaf of a list

EnqueueConfigs ==
    {Config(StepBudget(RerunSteps), "max", 1, None, 1, FALSE, TRUE, FALSE, "free")}

InitEnqueue == Construct(MaxRuns)

NextEnqueue ==
    \/ \E c \in EnqueueInputs \cup MismatchedInputs : Enqueue(c)
    \/ \E cfg \in EnqueueConfigs : \E r \in AnyResult : RunStart(cfg, r)
    \/ LoopBody
    \/ WaitReturn
    \/ LoopExit
    \/ SearchEnd

SpecEnqueue == InitEnqueue /\ [][NextEnqueue]_vars

(***************************************************************************)
(* SpecSetItem: the search space is extended with __setitem__ before or    *)
(* between runs.                                                           *)
(***************************************************************************)
\* the keys and values passed to __setitem__
SetItemInputs == {[key |-> "c", value |-> Parameter(0)], [key |-> "c", value |-> V(5)]}

\* Search.__setitem__
SetItem(key, value) ==
    /\ pc = "idle"
    /\ runs_left > 0
    /\ key \notin DOMAIN params.kv
    /\ params' = D([k \in DOMAIN params.kv \cup {key} |->
                      IF k = key THEN value ELSE params.kv[k]])
    /\ free_param_count' = count_free_parameters_rec(params')
    /\ best_solution' =
          IF best_f = None
            THEN D([k \in DOMAIN best_solution.kv \cup {key} |->
                      IF k = key THEN get_initial_solution(value)
                      ELSE best_solution.kv[k]])
            ELSE best_solution
    /\ last' = Last("setitem")
    /\ UNCHANGED <<best_f, f_cache, run_context, schedule, manually_queued_candidates,
                   caught_exception, history, pool, current_temperature, objective, pc,
                   runs_left, checkpoint, fresh, stats>>

SetItemConfigs ==
    {Config(StepBudget(RerunSteps), "max", 1, None, 1, FALSE, TRUE, FALSE, "free")}

NextSetItem ==
    \/ \E x \in SetItemInputs : SetItem(x.key, x.value)
    \/ \E cfg \in SetItemConfigs : \E r \in AnyResult : RunStart(cfg, r)
    \/ \E c \in EnqueueInputs : Enqueue(c)
    \/ LoopBody
    \/ LoopMutateError
    \/ WaitReturn
    \/ LoopExit
    \/ SearchEnd

InitSetItem == Construct(MaxRuns)

SpecSetItem == InitSetItem /\ [][NextSetItem]_vars

(***************************************************************************)
(* SpecMutate: calls of mutate_from_best on a Search object whose best     *)
(* solution is any candidate, at the temperatures a schedule produces and  *)
(* at those the duplicate boost of run makes of them.                      *)
(***************************************************************************)
\* the temperature after k duplicate boosts
RECURSIVE Boosted(_, _)
Boosted(temperature, k) ==
    IF k = 0 THEN temperature ELSE Boosted(reject_temperature(temperature), k - 1)

\* the temperatures passed to mutate_from_best
Temperatures ==
    {(TempScale * i) \div 4 : i \in 0..4} \cup {Boosted(TempScale, k) : k \in 1..MaxRejects}

\* Search.mutate_from_best(temperature), called on the idle object
MutateFromBest(temperature) ==
    /\ pc = "idle"
    /\ \E candidate \in mutate_from_best(temperature, params, best_solution, free_param_count) :
          last' = [Last("mutate_from_best") EXCEPT !.input = candidate]
    /\ current_temperature' = temperature
    /\ UNCHANGED <<params, free_param_count, best_solution, best_f, f_cache,
                   run_context, schedule, manually_queued_candidates, caught_exception,
                   history, pool, objective, pc, runs_left, checkpoint, fresh, stats>>

\* the best solution is replaced, as a run does with a new best
SetBest(candidate) ==
    /\ pc = "idle"
    /\ best_solution # candidate
    /\ best_solution' = candidate
    /\ last' = Last("new_best")
    /\ UNCHANGED <<params, free_param_count, best_f, f_cache,
                   run_context, schedule, manually_queued_candidates, caught_exception,
                   history, pool, current_temperature, objective, pc, runs_left,
                   checkpoint, fresh, stats>>

NextMutate ==
    \/ \E temperature \in Temperatures : MutateFromBest(temperature)
    \/ \E c \in AllCandidates : SetBest(c)

InitMutate == Construct(0)

SpecMutate == InitMutate /\ [][NextMutate]_vars

(***************************************************************************)
(* SpecBaseline: inline runs that restore a checkpoint or not, with save   *)
(* and enqueue called before and between them.                             *)
(***************************************************************************)
BaselineConfigs ==
    {Config(StepBudget(RerunSteps), "max", 1, None, 1, TRUE, TRUE, restore, "free") :
        restore \in BOOLEAN}

InitBaseline == Construct(MaxRuns)

NextBaseline ==
    \/ \E cfg \in BaselineConfigs : \E r \in AnyResult : RunStart(cfg, r)
    \/ \E c \in EnqueueInputs : Enqueue(c)
    \/ Save(None)
    \/ LoopBody
    \/ WaitReturn
    \/ LoopExit
    \/ SearchEnd

SpecBaseline == InitBaseline /\ [][NextBaseline]_vars

(***************************************************************************)
(* SpecNoParameters: runs on a search space without Parameter; nothing is  *)
(* ever enqueued.                                                          *)
(***************************************************************************)
\* a search space of constants only
ConstantSpace == D([a |-> V(3), b |-> L(<<V(5), V(7)>>)])

\* Search.__init__ with the search space of constants
InitNoParameters ==
    /\ params = ConstantSpace
    /\ best_solution = get_initial_solution(ConstantSpace)
    /\ free_param_count = count_free_parameters_rec(ConstantSpace)
    /\ best_f = None
    /\ f_cache = EvaluationCache
    /\ run_context = NoContext
    /\ schedule = NoSchedule
    /\ manually_queued_candidates = <<>>
    /\ caught_exception = FALSE
    /\ history = 0
    /\ pool = <<>>
    /\ current_temperature = TempScale
    /\ objective = "free"
    /\ pc = "idle"
    /\ runs_left = MaxRuns
    /\ checkpoint = NoFile
    /\ fresh = NoFile
    /\ stats = NoStats
    /\ last = Last("init")

NoParametersConfigs ==
    {Config(StepBudget(n), d, 1, pr, jobs, nans, TRUE, FALSE, "free") :
        n \in 1..MaxSteps, d \in {"max", "min"}, pr \in {None, 1},
        jobs \in 1..MaxJobs, nans \in BOOLEAN}

NextNoParameters ==
    \/ \E cfg \in NoParametersConfigs : \E r \in AnyResult : RunStart(cfg, r)
    \/ LoopNoParameters
    \/ WaitDrain
    \/ WaitReturn
    \/ LoopExit
    \/ FinalDrain
    \/ SearchEnd
    \/ \E i \in DOMAIN pool : \E r \in AnyResult : TaskCompletes(i, r)

SpecNoParameters == InitNoParameters /\ [][NextNoParameters]_vars

(***************************************************************************)
(* Properties                                                              *)
(***************************************************************************)
EventNames(events) == {events[i].e : i \in DOMAIN events}
ErrorResult == CandidateResult(None, TRUE, FALSE, FALSE)

\* C1: during a run the best solution and the best value change only in a
\* step that processes a result without error, NaN or pruning, and only when
\* no best value existed or the result is strictly better in the direction
\* of the run; the best value of a run never gets worse.
C1_BestChangesOnlyByStrictImprovement ==
    [][(best_f' # best_f \/ best_solution' # best_solution) =>
          /\ Len(last'.processed) = 1
          /\ LET p == last'.processed[1]
                 direction == run_context'.direction
             IN /\ ~p.result.error /\ ~p.result.is_nan /\ ~p.result.was_pruned
                /\ \/ best_f = None
                   \/ direction = "max" /\ p.result.value > best_f
                   \/ direction = "min" /\ p.result.value < best_f
                /\ best_f' = p.result.value
                /\ best_solution' = p.candidate]_vars

\* a second result of the run replaced the best because it was strictly better
C1_Witness ==
    /\ "on_new_best" \in EventNames(last.events)
    /\ stats.processed >= 2
    /\ Cardinality(f_cache.cache) >= 2

\* C2: with the rejection cache enabled no two tasks in flight carry the same
\* candidate, and every candidate in flight is reported as contained by the
\* cache.
C2_NoDuplicateInFlight ==
    (pc # "idle" /\ f_cache.enabled) =>
        /\ \A i, j \in DOMAIN pool : pool[i].candidate = pool[j].candidate => i = j
        /\ \A i \in DOMAIN pool : cache_contains(f_cache, pool[i].candidate)

\* the loop produced a candidate that is in flight and rejected it
C2_Witness ==
    /\ f_cache.enabled
    /\ Len(last.rejected) = 1
    /\ \E i \in DOMAIN pool : pool[i].candidate = last.rejected[1] /\ ~pool[i].done
    /\ last.rejected[1] \notin f_cache.cache

\* C3: the tasks submitted to a pool of concurrency n and not yet drained
\* (so also those not yet completed) never number more than n.
C3_PoolNeverOverfull ==
    pc # "idle" =>
        Len(pool) <= (IF run_context.n_jobs = 1 THEN 0 ELSE run_context.n_jobs)

\* the pool is full and the loop is blocked in _wait_for_one_free_executor
C3_Witness ==
    /\ pc = "wait"
    /\ run_context.n_jobs = MaxJobs
    /\ Len(pool) = MaxJobs
    /\ DoneTasks(pool) = {}
    /\ ~schedule_is_timeout(schedule)

C5_OneTeardown ==
    /\ stats.shutdowns <= 1
    /\ (\E i \in DOMAIN last.processed : last.processed[i].result.error) =>
           last.raised = "ObjectiveError"
    /\ last.raised = "ObjectiveError" =>
           /\ stats.shutdowns = 1 /\ stats.errors = 1
           /\ caught_exception
           /\ pc = "idle" /\ run_context # NoContext
           /\ pool = <<>>
    /\ last.op = "return" => stats.errors = 0 /\ stats.processed = stats.submitted
    /\ (caught_exception /\ run_context # NoContext) =>
           \A c \in AllCandidates :
              LET s == async_result_ready(Self("run"), c, ErrorResult)
              IN /\ ~Raised(s)
                 /\ s.stats.shutdowns = stats.shutdowns
                 /\ s.f_cache = f_cache /\ s.best_f = best_f
                 /\ s.best_solution = best_solution /\ s.pool = pool

\* a pooled run is aborted by an error result while another task was in flight
C5_Witness ==
    /\ last.raised = "ObjectiveError"
    /\ run_context.n_jobs # 1
    /\ stats.submitted >= 2
    /\ stats.shutdowns = 1

\* the complete candidate enqueue is to append for the partial candidate given
ExpectedQueued(best, given) ==
    D([a |-> IF "a" \in DOMAIN given.kv THEN given.kv.a ELSE best.kv.a,
       b |-> L([i \in 1..2 |->
                  IF "b" \in DOMAIN given.kv /\ i <= Len(given.kv.b.el)
                    THEN given.kv.b.el[i] ELSE best.kv.b.el[i]])])

C7_FreshLoadRoundTrip ==
    (fresh # NoFile /\ checkpoint.run_context # NoContext) =>
        /\ fresh.last.raised = NoError
        /\ fresh.best_f = checkpoint.best_f
        /\ fresh.best_solution = checkpoint.best_solution
        /\ \A c \in AllCandidates :
              cache_contains(fresh.f_cache, c) <=>
                  (c \in checkpoint.cache.cache \cup checkpoint.cache.staged)

\* load on the fresh object has raised on the run context it does not have
C7_Witness ==
    /\ fresh # NoFile
    /\ checkpoint.run_context # NoContext
    /\ checkpoint.best_f # None
    /\ fresh.last.raised = "AttributeError"
    /\ fresh.best_f = None

\* C8: once the gradual-quit signal has arrived the budget check reports a
\* timeout and nothing more is submitted; on_search_end is called and run
\* returns only when no task is in flight and every submitted result has been
\* processed.
C8_SignalDrainsThenEnds ==
    [][/\ (schedule.sigterm_received /\ pc # "idle") =>
             /\ schedule_is_timeout(schedule)
             /\ stats'.submitted = stats.submitted
             /\ Len(pool') <= Len(pool)
       /\ last'.op = "return" =>
             /\ pool = <<>> /\ pool' = <<>>
             /\ stats.processed = stats.submitted
             /\ EventNames(last'.events) = {"on_search_end"}
             /\ best_solution' = best_solution]_vars

\* an endless run, which only the signal can end, has returned after draining
C8_Witness ==
    /\ last.op = "return"
    /\ schedule.endless_mode
    /\ schedule.sigterm_received
    /\ stats.submitted >= 2
    /\ stats.processed = stats.submitted

\* C9: run called with steps and timeout, or with endless_mode and one of
\* them, raises before anything is evaluated: no callback, nothing staged or
\* submitted, cache, best solution, best value and manual queue unchanged.
C9_ConflictingBudgetRaisesFirst ==
    [][(last'.op = "run" /\ pc = "idle" /\
        (\/ last'.args.steps # None /\ last'.args.timeout # None
         \/ last'.args.endless_mode /\
              (last'.args.steps # None \/ last'.args.timeout # None))) =>
          /\ last'.raised = "ValueError"
          /\ pc' = "idle"
          /\ last'.events = <<>> /\ last'.submitted = <<>> /\ last'.processed = <<>>
          /\ f_cache' = f_cache
          /\ pool' = pool
          /\ best_solution' = best_solution
          /\ best_f' = best_f
          /\ manually_queued_candidates' = manually_queued_candidates]_vars

\* run(steps, timeout) has raised with a candidate waiting in the manual queue
C9_Witness ==
    /\ last.op = "run"
    /\ last.raised = "ValueError"
    /\ last.args.steps # None /\ last.args.timeout # None
    /\ Len(manually_queued_candidates) > 0

\* the candidates whose result the result handler commits in this step
Committed(processed, ignore_nans) ==
    {processed[i].candidate : i \in
        {j \in DOMAIN processed :
            /\ ~processed[j].result.error
            /\ ~(processed[j].result.is_nan /\ ~ignore_nans)}}

\* the step removes the candidate from the cache by forget_cached or clear_cache
Forgets(l, c) ==
    \/ l.op = "clear_cache"
    \/ l.op = "forget_cached" /\ l.input = c

Differs(c, best) ==
    {k \in {"a"} : c.kv.a # best.kv.a} \cup {k \in {"b1"} : c.kv.b.el[1] # best.kv.b.el[1]}

\* the candidates that have the values of best everywhere but at n Parameter
\* leaves, where they have any value of the parameter
MutatedAt(n, best) ==
    {c \in AllCandidates :
        \E S \in SUBSET {"a", "b1"} : Cardinality(S) = n /\ Differs(c, best) \subseteq S}

RECURSIVE SameShape(_, _)
SameShape(node, candidate) ==
    IF isDict(node)
      THEN /\ isDict(candidate)
           /\ DOMAIN candidate.kv = DOMAIN node.kv
           /\ \A k \in DOMAIN node.kv : SameShape(node.kv[k], candidate.kv[k])
    ELSE IF isList(node)
      THEN /\ isList(candidate)
           /\ Len(candidate.el) = Len(node.el)
           /\ \A i \in DOMAIN node.el : SameShape(node.el[i], candidate.el[i])
    ELSE ~isDict(candidate) /\ ~isList(candidate)

\* C12 as stated: whatever calls of __setitem__, enqueue and run were made,
\* the best solution has the tree shape of the registered search space.
C12_BestHasShapeOfSearchSpace == SameShape(params, best_solution)

\* a run has raised KeyError in mutate_from_best: a key added with
\* __setitem__ after an earlier run is not in the best solution
C12_Witness ==
    /\ last.op = "run"
    /\ last.raised = "KeyError"
    /\ best_f # None
    /\ "c" \in DOMAIN params.kv
    /\ "c" \notin DOMAIN best_solution.kv

\* the callbacks a step has called with the outcome of an evaluation
OutcomeEvents(l) ==
    EventNames(l.events) \ {"on_search_start", "on_evaluate_start", "pruner.append"}

\* C13 as stated: a step that processes a NaN result leaves the best
\* solution and the best value unchanged; with ignore_nans false it raises
\* out of run with the committed set unchanged and no callback called with
\* the outcome; with ignore_nans true it commits the candidate and calls
\* on_evaluate_nan and no other callback with the outcome.
C13_NaNOnlyNotifiesNaN ==
    [][\A i \in DOMAIN last'.processed :
          LET p == last'.processed[i]
          IN p.result.is_nan =>
               /\ best_solution' = best_solution /\ best_f' = best_f
               /\ IF ~run_context'.ignore_nans
                    THEN /\ last'.raised = "NaNError" /\ pc' = "idle"
                         /\ f_cache'.cache = f_cache.cache
                         /\ OutcomeEvents(last') = {}
                    ELSE /\ last'.raised = NoError
                         /\ p.candidate \in f_cache'.cache
                         /\ OutcomeEvents(last') = {"on_evaluate_nan"}]_vars

\* C13, amended: as stated, but with ignore_nans true a NaN result that is
\* also marked as pruned is reported to on_evaluate_pruned, and not to
\* on_evaluate_nan; the pruner is never told a NaN result.
C13_NaNNeverBest ==
    [][\A i \in DOMAIN last'.processed :
          LET p == last'.processed[i]
          IN p.result.is_nan =>
               /\ best_solution' = best_solution /\ best_f' = best_f
               /\ "pruner.append" \notin EventNames(last'.events)
               /\ IF ~run_context'.ignore_nans
                    THEN /\ last'.raised = "NaNError" /\ pc' = "idle"
                         /\ f_cache'.cache = f_cache.cache
                         /\ OutcomeEvents(last') = {}
                    ELSE /\ last'.raised = NoError
                         /\ p.candidate \in f_cache'.cache
                         /\ OutcomeEvents(last') =
                               IF p.result.was_pruned THEN {"on_evaluate_pruned"}
                               ELSE {"on_evaluate_nan"}]_vars

\* a tolerated NaN result was committed while a best value existed
C13_Witness ==
    /\ Len(last.processed) = 1
    /\ last.processed[1].result.is_nan
    /\ ~last.processed[1].result.was_pruned
    /\ run_context.ignore_nans
    /\ "on_evaluate_nan" \in EventNames(last.events)
    /\ last.processed[1].candidate \in f_cache.cache
    /\ best_f # None
    /\ best_solution # last.processed[1].candidate

\* C14 as stated: load raises ValueError when the checkpoint record lacks a
\* required key, and raises when the record carries pruner state and load is
\* given a pruner other than the one bound to the run context.
C14_LoadRaisesStructuredError ==
    /\ fresh # NoFile =>
          (~(RequiredKeys \subseteq DOMAIN checkpoint) => fresh.last.raised = "ValueError")
    /\ last.op = "load" =>
          /\ ~(RequiredKeys \subseteq DOMAIN checkpoint) => last.raised = "ValueError"
          /\ (/\ "pruner" \in DOMAIN checkpoint
              /\ run_context # NoContext
              /\ run_context.pruner # None
              /\ last.input.v # None
              /\ last.input.v # run_context.pruner) => last.raised # NoError

\* load has raised AttributeError for a checkpoint record without its cache
C14_Witness ==
    /\ last.op = "load"
    /\ "cache" \notin DOMAIN checkpoint
    /\ "run_context" \in DOMAIN checkpoint
    /\ last.raised = "AttributeError"

\* the partial candidate given to enqueue matches the search space: mappings
\* with registered keys where mappings are registered, sequences where
\* sequences are registered, anything else at the leaves
RECURSIVE Matches(_, _)
Matches(node, given) ==
    IF isDict(node)
      THEN /\ isDict(given)
           /\ DOMAIN given.kv \subseteq DOMAIN node.kv
           /\ \A k \in DOMAIN given.kv : Matches(node.kv[k], given.kv[k])
    ELSE IF isList(node)
      THEN /\ isList(given)
           /\ \A i \in DOMAIN given.el \cap DOMAIN node.el :
                 Matches(node.el[i], given.el[i])
    ELSE ~isDict(given) /\ ~isList(given)

\* C15 as stated: enqueue with a candidate that does not match the search
\* space raises, and leaves the manual queue and the best solution unchanged.
C15_MismatchedEnqueueRaises ==
    [][(last'.op = "enqueue" /\ ~Matches(params, last'.input)) =>
          /\ last'.raised # NoError
          /\ manually_queued_candidates' = manually_queued_candidates
          /\ best_solution' = best_solution]_vars

\* enqueue has returned normally and queued a candidate with a mapping where
\* the search space has a leaf
C15_Witness ==
    /\ last.op = "enqueue"
    /\ last.raised = NoError
    /\ ~Matches(params, last.input)
    /\ Len(manually_queued_candidates) = 1
    /\ ~SameShape(params, manually_queued_candidates[1])

\* C16: the best solution follows the order in which results are processed:
\* the first result without error, NaN or pruning sets it, and a result
\* whose value equals the best value leaves the best solution and the best
\* value as they are, also when its candidate was submitted earlier.
C16_TiesKeepFirstProcessed ==
    [][\A i \in DOMAIN last'.processed :
          LET p == last'.processed[i]
              clean == ~p.result.error /\ ~p.result.is_nan /\ ~p.result.was_pruned
          IN /\ (clean /\ best_f = None) =>
                    (best_solution' = p.candidate /\ best_f' = p.result.value)
             /\ (clean /\ best_f # None /\ p.result.value = best_f) =>
                    (best_solution' = best_solution /\ best_f' = best_f)]_vars

\* the result of the baseline, submitted first, is drained after the equal
\* result of a candidate submitted later and does not replace it
C16_Witness ==
    /\ last.op = "drain"
    /\ Len(last.processed) = 1
    /\ last.processed[1].candidate = get_initial_solution(params)
    /\ ~last.processed[1].result.error /\ ~last.processed[1].result.is_nan
    /\ last.processed[1].result.value = best_f
    /\ best_solution # get_initial_solution(params)
    /\ stats.processed = 2

\* C17: a loop iteration submits only a candidate the cache does not know;
\* an iteration whose candidate the enabled cache knows (committed or staged)
\* calls no on_evaluate_start and no other callback, submits and processes
\* nothing, leaves the cache, the pool, the best solution and the best value
\* unchanged, and applies the duplicate boost to the current temperature.
C17_RejectionStartsNoEvaluation ==
    [][(pc = "loop" /\ last'.op = "run") =>
          /\ \A i \in DOMAIN last'.submitted :
                ~cache_contains(f_cache, last'.submitted[i].candidate)
          /\ \A i \in DOMAIN last'.rejected :
                /\ cache_contains(f_cache, last'.rejected[i])
                /\ last'.events = <<>>
                /\ last'.submitted = <<>> /\ last'.processed = <<>>
                /\ f_cache' = f_cache /\ pool' = pool
                /\ best_solution' = best_solution /\ best_f' = best_f
                /\ stats'.submitted = stats.submitted
                /\ current_temperature' = reject_temperature(current_temperature)]_vars

\* an iteration has rejected a candidate that is committed and not staged
C17_Witness ==
    /\ last.op = "run"
    /\ Len(last.rejected) = 1
    /\ f_cache.enabled
    /\ last.rejected[1] \in f_cache.cache
    /\ last.rejected[1] \notin f_cache.staged
    /\ last.submitted = <<>>
    /\ best_f # None

\* C18: a rejected duplicate multiplies the current temperature by 1.05 and
\* caps it at 1: the temperature after a rejection is at most 1, and a
\* temperature below 1/1.05 is raised by 5 percent.
C18_BoostCappedAtOne ==
    [][(pc = "loop" /\ last'.op = "run" /\ last'.rejected # <<>>) =>
          /\ current_temperature' <= TempScale
          /\ (current_temperature * 105 < TempScale * 100) =>
                 current_temperature' = (current_temperature * 105) \div 100]_vars

\* a duplicate was rejected at a temperature below 1/1.05 and the loop's
\* temperature is 1 afterwards
C18_Witness ==
    /\ last.op = "run"
    /\ last.rejected # <<>>
    /\ schedule.max_steps # None
    /\ schedule_temperature([schedule EXCEPT !.step = @ - 1]) * 105 < TempScale * 100
    /\ current_temperature >= TempScale

\* C19: an iteration that submits its candidate advances the step counter
\* and then takes the current temperature from the schedule: with a step
\* budget the temperature the next iteration mutates with is the schedule's
\* temperature at the step count reached.
C19_TemperatureFollowsStepCount ==
    [][(pc = "loop" /\ last'.op = "run" /\ last'.submitted # <<>>
        /\ last'.raised = NoError /\ schedule.max_steps # None) =>
          /\ schedule'.step = schedule.step + 1
          /\ current_temperature' = schedule_temperature(schedule')]_vars

\* the loop is about to mutate from the best solution with the temperature
\* of the step before the one the schedule has reached
C19_Witness ==
    /\ pc = "loop"
    /\ schedule.max_steps # None
    /\ ~schedule_is_timeout(schedule)
    /\ ~schedule_is_in_seeding_mode(schedule)
    /\ Len(manually_queued_candidates) = 0
    /\ stats.rejected = 0
    /\ schedule.step >= 2
    /\ current_temperature # schedule_temperature(schedule)
    /\ current_temperature = schedule_temperature([schedule EXCEPT !.step = @ - 1])

\* the candidates an iteration has tried: submitted with their type, or
\* rejected as duplicates
Tried(l) ==
    {[candidate |-> l.submitted[i].candidate, type |-> l.submitted[i].type] :
        i \in DOMAIN l.submitted}
    \cup {[candidate |-> l.rejected[i], type |-> "rejected"] : i \in DOMAIN l.rejected}

\* C20: every loop iteration tries exactly one candidate: the front of the
\* manual queue when the queue is not empty, which it removes so that the
\* rest of the queue keeps its order; otherwise a candidate of
\* sample_solution when the schedule is in seeding mode; otherwise a
\* candidate of mutate_from_best at the current temperature. The type of a
\* submitted candidate names its source.
C20_CandidateSourceOrder ==
    [][(pc = "loop" /\ last'.op = "run" /\ last'.raised # "KeyError") =>
          /\ Len(last'.submitted) + Len(last'.rejected) = 1
          /\ \A t \in Tried(last') :
                IF Len(manually_queued_candidates) > 0
                  THEN /\ t.type \in {"MANUALLY_ADDED", "rejected"}
                       /\ t.candidate = Head(manually_queued_candidates)
                       /\ manually_queued_candidates' = Tail(manually_queued_candidates)
                ELSE IF schedule_is_in_seeding_mode(schedule)
                  THEN /\ t.type \in {"RANDOM_SEEDING", "rejected"}
                       /\ t.candidate \in sample_solution(params)
                       /\ manually_queued_candidates' = <<>>
                ELSE /\ t.type \in {"LOCAL_SAMPLING", "rejected"}
                     /\ t.candidate \in mutate_from_best(current_temperature, params,
                                                         best_solution, free_param_count)
                     /\ manually_queued_candidates' = <<>>]_vars

\* two different candidates were queued; the run has submitted the first and
\* then, in the state reached, the second, both as manually added
C20_Witness ==
    /\ last.op = "run"
    /\ last.submitted = <<[candidate |-> D([a |-> V(0), b |-> L(<<V(1), V(7)>>)]),
                           type |-> "MANUALLY_ADDED"]>>
    /\ D([a |-> V(1), b |-> L(<<V(0), V(7)>>)]) \in f_cache.cache \cup f_cache.staged
    /\ stats.submitted = 2
    /\ stats.rejected = 0
    /\ manually_queued_candidates = <<>>

\* the candidates an operation has submitted as baseline
Baselines(l) == {i \in DOMAIN l.submitted : l.submitted[i].type = "INIT"}

\* C21: a call of run that gets as far as on_search_start submits the
\* initial solution as baseline, once, exactly when no best value exists
\* (after the restore of a checkpoint, if the call restores one) and the
\* manual queue is empty; no other step submits a baseline.
C21_BaselineOnlyWithoutBestAndQueue ==
    [][IF last'.op = "run" /\ pc = "idle"
             /\ "on_search_start" \in EventNames(last'.events)
         THEN LET bf == IF last'.args.restore /\ checkpoint # NoFile
                          THEN checkpoint.best_f ELSE best_f
              IN IF bf = None /\ Len(manually_queued_candidates) = 0
                   THEN /\ Cardinality(Baselines(last')) = 1
                        /\ Len(last'.submitted) = 1
                        /\ last'.submitted[1].candidate = get_initial_solution(params)
                   ELSE last'.submitted = <<>>
         ELSE Baselines(last') = {}]_vars

\* a run restores a checkpoint that holds a best value and starts without
\* a baseline although nothing is queued
C21_Witness ==
    /\ last.op = "run"
    /\ pc = "wait"
    /\ last.args.restore
    /\ checkpoint # NoFile
    /\ checkpoint.best_f # None
    /\ manually_queued_candidates = <<>>
    /\ last.submitted = <<>>
    /\ stats.submitted = 0
    /\ EventNames(last.events) = {"on_search_start"}

\* the positions of the events of one kind about a candidate
EventsAt(l, e, candidate) ==
    {i \in DOMAIN l.events : l.events[i] = Event(e, candidate)}

\* C22: with a pruner, a step that commits the value of a result to the
\* cache (a result without error that is not a fatal NaN) feeds that result
\* to the pruner exactly once, before on_evaluate_pruned, on_evaluate_nan or
\* on_evaluate_end is called; pruned and ignored NaN results included.
C22_CommittedResultsReachPruner ==
    [][\A i \in DOMAIN last'.processed :
          LET p == last'.processed[i]
              fed == EventsAt(last', "pruner.append", p.candidate)
              outcome == UNION {EventsAt(last', e, p.candidate) :
                                  e \in {"on_evaluate_pruned", "on_evaluate_nan",
                                         "on_evaluate_end"}}
          IN (/\ run_context'.pruner # None
              /\ ~p.result.error
              /\ ~(p.result.is_nan /\ ~run_context'.ignore_nans)) =>
                 /\ p.candidate \in f_cache'.cache
                 /\ Cardinality(fed) = 1
                 /\ \A j \in fed : \A k \in outcome : j < k]_vars

\* with a pruner and ignore_nans, a NaN result has been committed and
\* reported to on_evaluate_nan without being fed to the pruner
C22_Witness ==
    /\ run_context # NoContext
    /\ run_context.pruner # None
    /\ run_context.ignore_nans
    /\ Len(last.processed) = 1
    /\ last.processed[1].result.is_nan
    /\ ~last.processed[1].result.was_pruned
    /\ last.raised = NoError
    /\ last.processed[1].candidate \in f_cache.cache
    /\ EventsAt(last, "on_evaluate_nan", last.processed[1].candidate) # {}
    /\ EventsAt(last, "pruner.append", last.processed[1].candidate) = {}
    /\ stats.processed >= 1

\* the names of the callbacks that report the outcome of an evaluation
EndCallbacks == {"on_evaluate_end", "on_evaluate_pruned", "on_evaluate_nan"}

\* C23: the callbacks of a run come in the order of the protocol.
\* on_search_start is the first callback of the call of run, so it precedes
\* every on_evaluate_start; a submitted candidate is announced by
\* on_evaluate_start in the step that submits it, before its result is
\* handled; a result handled without raising is reported by exactly one of
\* on_evaluate_end, on_evaluate_pruned, on_evaluate_nan; on_new_best directly
\* follows on_evaluate_end of the same candidate, which is then the best
\* solution with a new best value; on_search_end is called once, by the step
\* that returns, when every submitted candidate has had its result handled.
C23_CallbackProtocol ==
    [][LET l == last'
           names == [i \in DOMAIN l.events |-> l.events[i].e]
       IN /\ \A i \in DOMAIN l.events :
                /\ names[i] = "on_search_start" => (i = 1 /\ pc = "idle" /\ l.op = "run")
                /\ names[i] = "on_evaluate_start" =>
                      /\ pc # "idle" \/ names[1] = "on_search_start"
                      /\ \E j \in DOMAIN l.submitted :
                            l.submitted[j].candidate = l.events[i].c
                /\ names[i] \in EndCallbacks =>
                      \E j \in DOMAIN l.processed :
                         l.processed[j].candidate = l.events[i].c
                /\ names[i] = "on_new_best" =>
                      /\ i > 1
                      /\ l.events[i - 1] = Event("on_evaluate_end", l.events[i].c)
                      /\ best_solution' = l.events[i].c
                      /\ best_f' # best_f
                /\ names[i] = "on_search_end" =>
                      /\ l.op = "return" /\ Len(l.events) = 1
                      /\ pc' = "idle" /\ pool' = <<>>
                      /\ stats'.processed = stats'.submitted
          /\ \A j \in DOMAIN l.submitted :
                /\ Cardinality(EventsAt(l, "on_evaluate_start", l.submitted[j].candidate)) = 1
                /\ \A i \in EventsAt(l, "on_evaluate_start", l.submitted[j].candidate) :
                      \A k \in DOMAIN l.events : names[k] \in EndCallbacks => i < k
          /\ \A j \in DOMAIN l.processed :
                l.raised = NoError =>
                   Cardinality({i \in DOMAIN l.events :
                                   /\ names[i] \in EndCallbacks
                                   /\ l.events[i].c = l.processed[j].candidate}) = 1
          /\ (l.op = "return") => names = <<"on_search_end">>
          /\ (best_f' # best_f /\ l.op \in {"run", "drain"}) =>
                \E i \in DOMAIN l.events : names[i] = "on_new_best"]_vars

\* a pooled run has returned after three candidates were submitted and all
\* of their results handled
C23_Witness ==
    /\ last.op = "return"
    /\ EventNames(last.events) = {"on_search_end"}
    /\ ~stats.inline
    /\ stats.submitted = 3
    /\ stats.processed = 3
    /\ best_f # None
    /\ pc = "idle"

\* C24: after the budget check has ended the loop nothing more is submitted,
\* and every result still outstanding is handled as any other: committed,
\* reported and compared with the best value. run returns only once no task
\* is in flight, no candidate is staged and every submitted candidate has had
\* its result handled.
C24_ReturnsAfterAllResults ==
    [][/\ pc = "final" =>
             /\ stats'.submitted = stats.submitted
             /\ f_cache'.staged \subseteq f_cache.staged
             /\ \A i \in DOMAIN last'.processed :
                   LET p == last'.processed[i]
                   IN last'.raised = NoError =>
                         /\ p.candidate \in f_cache'.cache
                         /\ p.candidate \notin f_cache'.staged
                         /\ EventNames(last'.events) \cap EndCallbacks # {}
                         /\ (~p.result.is_nan /\ ~p.result.was_pruned) =>
                               /\ best_f' # None
                               /\ run_context.direction = "max" => best_f' >= p.result.value
                               /\ run_context.direction = "min" => best_f' <= p.result.value
       /\ last'.op = "return" =>
             /\ pc = "final" /\ run_context.terminate
             /\ pool = <<>>
             /\ f_cache'.staged = {}
             /\ stats'.processed = stats'.submitted
             /\ best_solution' = best_solution /\ best_f' = best_f]_vars

\* the last outstanding result is handled after the loop has ended, and its
\* candidate replaces the best solution before run returns
C24_Witness ==
    /\ pc = "final"
    /\ last.op = "drain"
    /\ pool = <<>>
    /\ stats.processed = stats.submitted
    /\ stats.submitted >= 2
    /\ "on_new_best" \in EventNames(last.events)
    /\ best_solution = last.processed[1].candidate
    /\ f_cache.staged = {}

\* C25: the step that handles an error result ends the run: it raises out
\* of run after the teardown, commits nothing, calls no callback after the
\* result and leaves the best solution and the best value as they are; the
\* pool is empty afterwards. In every state in which the run has handled an
\* error result the call of run is over, so the loop is not entered again.
C25_ErrorEndsRun ==
    [][/\ \A i \in DOMAIN last'.processed :
             last'.processed[i].result.error =>
                /\ i = Len(last'.processed)
                /\ last'.raised = "ObjectiveError"
                /\ pc' = "idle"
                /\ caught_exception'
                /\ pool' = <<>>
                /\ f_cache'.cache = f_cache.cache
                /\ best_solution' = best_solution /\ best_f' = best_f
                /\ EventNames(last'.events) \cap (EndCallbacks \cup {"on_new_best"}) = {}
       /\ stats'.errors > 0 =>
             /\ pc' = "idle"
             /\ stats'.errors = 1
             /\ stats'.shutdowns = 1]_vars

\* a pooled run was ended by an error result while another candidate was
\* still in flight: that candidate stays staged and is never committed
C25_Witness ==
    /\ pc = "idle"
    /\ last.raised = "ObjectiveError"
    /\ stats.errors = 1
    /\ ~stats.inline
    /\ stats.submitted >= 2
    /\ stats.processed < stats.submitted
    /\ pool = <<>>
    /\ f_cache.staged # {}

\* C26: the Search object has no run context in any state in which no call
\* of run is in progress, however the last call ended.
C26_NoRunContextWhileIdle == pc = "idle" => run_context = NoContext

\* run was ended by a NaN result and the object still has the run context
\* of that call
C26_Witness ==
    /\ pc = "idle"
    /\ last.op = "run"
    /\ last.raised = "NaNError"
    /\ run_context # NoContext
    /\ ~run_context.terminate

\* C27: in a run with a step budget every loop iteration, whether it submits
\* its candidate or rejects it as a duplicate, advances the step counter by
\* one, the counter never exceeds the budget, and the run comes to its end:
\* a started run always returns.
C27_StepBudgetTerminates ==
    /\ [][(pc = "loop" /\ last'.op = "run" /\ schedule.max_steps # None) =>
             /\ schedule.step < schedule.max_steps
             /\ schedule'.step = schedule.step + 1
             /\ Len(last'.submitted) + Len(last'.rejected) = 1]_vars
    /\ (pc # "idle") ~> (pc = "idle" /\ last.op = "return"
                          /\ schedule.step = schedule.max_steps)

\* the run has returned after the baseline and nothing but rejected
\* duplicates: the search space gave no other candidate
C27_Witness ==
    /\ last.op = "return"
    /\ schedule.max_steps = ClaimSteps
    /\ schedule.step = ClaimSteps
    /\ stats.submitted = 1
    /\ stats.rejected = ClaimSteps - 1

\* C28: a call of load that raises leaves the cache, the history, the best
\* value and the best solution of the Search object as they were.
C28_FailedLoadChangesNothing ==
    [][(last'.op = "load" /\ last'.raised # NoError) =>
          UNCHANGED <<f_cache, history, best_f, best_solution>>]_vars

\* load has raised on a checkpoint record without best_f, written before the
\* first run: the cache and the history of the object are those of the
\* record, its best value is still the one of its run
C28_Witness ==
    /\ last.op = "load"
    /\ last.raised = "ValueError"
    /\ "best_f" \notin DOMAIN checkpoint
    /\ "cache" \in DOMAIN checkpoint
    /\ "history" \in DOMAIN checkpoint
    /\ checkpoint.cache.cache = {}
    /\ f_cache.cache = {}
    /\ history = 0
    /\ best_f # None

\* C29: on a search space without Parameter and with nothing enqueued, no
\* call of run returns: a call with a valid step budget ends with the
\* ValueError of the loop ("no parameters to tune").
C29_NoParametersRaises ==
    (free_param_count = 0 /\ pc = "idle" /\ last.op \in {"run", "return"}
     /\ ~last.raised \in {"ObjectiveError", "NaNError"}) =>
        (last.op = "run" /\ last.raised = "ValueError")

\* run with a budget of one step has evaluated the baseline and returned it
\* as the solution of a search space without Parameter
C29_Witness ==
    /\ free_param_count = 0
    /\ last.op = "return"
    /\ pc = "idle"
    /\ schedule.max_steps = 1
    /\ schedule.step = 1
    /\ stats.submitted = 1
    /\ best_f # None
    /\ best_solution = get_initial_solution(params)

====
